---- MODULE Spec2Model ----
(***************************************************************************)
(* A model of the Falling Fruit API client (src/server.py): the type       *)
(* cache of FallingFruitAPI.get_all_types, the client-side type search     *)
(* (get_types, find_fruit_type_by_name), the distance filter of            *)
(* get_locations, and the tool functions built on them.                    *)
(*                                                                         *)
(* Coroutines run on one asyncio event loop: a task runs without           *)
(* interruption until it awaits an HTTP response.  `running` is the task   *)
(* that holds the loop (0: none); `pc[t]` is the place task t is at.       *)
(*                                                                         *)
(* Conventions: Python's None is the empty tuple <<>> and a present value  *)
(* v is <<v>>; a str is a tuple of one-character strings.                  *)
(***************************************************************************)
EXTENDS Integers, Sequences, FiniteSets, TLC

\* ------------------------------------------------------------- bounds
NumTasks == 2
MaxClock == 36
MaxFetches == 3

Tasks == 1..NumTasks
\* The amounts (hours) by which the wall clock is observed to advance.
TickSteps == {12}

None == <<>>
Some(v) == <<v>>

\* ------------------------------------------------------------ strings
\* str.lower() on the model's alphabet.
LowerChar(c) ==
    CASE c = "A" -> "a"
      [] c = "B" -> "b"
      [] c = "U" -> "u"
      [] OTHER -> c

lower(s) == [i \in 1..Len(s) |-> LowerChar(s[i])]

\* Python's `sub in s` on two str.
StrIn(sub, s) ==
    \E i \in 0..(Len(s) - Len(sub)) : SubSeq(s, i + 1, i + Len(sub)) = sub

\* ---------------------------------------------------- module constants
\* timedelta(hours=24), in hours.
CacheDuration == 24

\* FALLING_FRUIT_API_KEY in the environment: unset, empty, or a key.
EnvValues == {None, Some(<<>>), Some(<<"k">>)}

\* API_KEY = os.getenv(...); an empty string is treated as None.
API_KEY(env) == IF env = Some(<<>>) THEN None ELSE env

\* Truthy with every value taken for true.
Truthy_Always(v) == TRUE

\* Python truthiness of an Optional[str]: None and "" are falsy.
Truthy(v) == v # None /\ v # Some(<<>>)

\* ------------------------------------------------------ taxonomy parser
Unknown == <<"U", "n", "k", "n", "o", "w", "n">>

\* A raw record of the remote "types" collection:
\*   id_kind  "int" | "absent" (no 'id' key) | "bad" (not an integer)
\*   cn_kind  "dict" | "absent" | "other" (common_names not a dict)
\*   cn       the dict's items in order: [lang, is_list, names]
\*   sn_kind  "list" | "absent" | "other"
\*   sn       the scientific_names list
RawType(id_kind, id, cn_kind, cn, sn_kind, sn) ==
    [id_kind |-> id_kind, id |-> id, cn_kind |-> cn_kind, cn |-> cn,
     sn_kind |-> sn_kind, sn |-> sn]

Lang(lang, names) == [lang |-> lang, is_list |-> TRUE, names |-> names]

RECURSIVE FlattenNames(_)
\* for lang, names in item['common_names'].items():
\*     if isinstance(names, list): common_names.extend(names)
FlattenNames(items) ==
    IF items = <<>> THEN <<>>
    ELSE (IF Head(items).is_list THEN Head(items).names ELSE <<>>)
         \o FlattenNames(Tail(items))

\* The names a record contributes.
CommonNamesOf(item) ==
    IF item.cn_kind = "dict" THEN FlattenNames(item.cn) ELSE <<>>

ScientificNamesOf(item) ==
    IF item.sn_kind = "list" THEN item.sn ELSE <<>>

\* ParseType with the scientific name preferred as the display name.
ParseType_ScientificFirst(item) ==
    LET common_names == CommonNamesOf(item)
        scientific_names == ScientificNamesOf(item)
        primary_name ==
            IF scientific_names # <<>> THEN scientific_names[1]
            ELSE IF common_names # <<>> THEN common_names[1]
            ELSE Unknown
        primary_scientific ==
            IF scientific_names # <<>> THEN scientific_names[1] ELSE <<>>
    IN  IF item.id_kind # "int" THEN None
        ELSE Some([id |-> item.id,
                   name |-> primary_name,
                   scientific_name |-> primary_scientific,
                   common_names |-> common_names,
                   scientific_names |-> scientific_names])

\* The FruitType built from one record; None when building it raises
\* (KeyError on item['id'], or pydantic's validation of id: int).
ParseType(item) ==
    LET common_names == CommonNamesOf(item)
        scientific_names == ScientificNamesOf(item)
        primary_name ==
            IF common_names # <<>> THEN common_names[1]
            ELSE IF scientific_names # <<>> THEN scientific_names[1]
            ELSE Unknown
        primary_scientific ==
            IF scientific_names # <<>> THEN scientific_names[1] ELSE <<>>
    IN  IF item.id_kind # "int" THEN None
        ELSE Some([id |-> item.id,
                   name |-> primary_name,
                   scientific_name |-> primary_scientific,
                   common_names |-> common_names,
                   scientific_names |-> scientific_names])

RECURSIVE ParseTypes_StopAtBad(_)
\* ParseTypes with the loop left at the first record that raises (break).
ParseTypes_StopAtBad(data) ==
    IF data = <<>> \/ ParseType(Head(data)) = None THEN <<>>
    ELSE ParseType(Head(data)) \o ParseTypes_StopAtBad(Tail(data))

RECURSIVE ParseTypes(_)
\* The loop over data: a record that raises is skipped (except: continue).
ParseTypes(data) ==
    IF data = <<>> THEN <<>>
    ELSE ParseType(Head(data)) \o ParseTypes(Tail(data))

\* A catalogue of raw records.  "A" plays Apple and "bA" Crabapple.
NotAList(lang) == [lang |-> lang, is_list |-> FALSE, names |-> <<>>]

RawApple ==
    RawType("int", 1, "dict", <<Lang("en", <<<<"A">>>>)>>, "list", <<<<"a", "b">>>>)
RawCrab ==
    RawType("int", 2, "dict", <<Lang("en", <<<<"b", "A">>>>)>>, "absent", <<>>)
RawMulti ==
    RawType("int", 3, "dict",
            <<Lang("en", <<<<"b">>, <<"A", "b">>>>), Lang("fr", <<<<"a", "b">>>>)>>,
            "list", <<<<"B", "a">>>>)
RawNoNames == RawType("int", 4, "absent", <<>>, "absent", <<>>)
RawSciOnly ==
    RawType("int", 5, "other", <<>>, "list", <<<<"a", "B">>, <<"a">>>>)
RawBadLang ==
    RawType("int", 0, "dict", <<NotAList("en"), Lang("fr", <<<<"a">>>>)>>, "other", <<>>)
RawNoId == RawType("absent", 0, "dict", <<Lang("en", <<<<"a">>>>)>>, "list", <<>>)
RawBadId == RawType("bad", 0, "dict", <<Lang("en", <<<<"A">>>>)>>, "list", <<>>)

\* ------------------------------------------------------------ the state
VARIABLES
    env_key,          \* FALLING_FRUIT_API_KEY at import time
    api_key,          \* FallingFruitAPI.api_key
    types_cache,      \* FallingFruitAPI._types_cache
    cache_timestamp,  \* FallingFruitAPI._cache_timestamp
    clock,            \* datetime.now(), in hours
    running,          \* the task that holds the event loop, 0 when none does
    op,               \* op[t]: the coroutine task t was started with
    pc,               \* pc[t]: where task t is
    stack,            \* stack[t]: where the calls in progress return to
    frame,            \* frame[t]: the local variables of task t's calls
    ret,              \* ret[t]: what the last finished call returned or raised
    log,              \* log[t]: the network requests of task t's current op
    fetches,          \* the number of GET /types issued so far
    written           \* which fetch wrote the stored collection, and which
                      \* the stored timestamp (0: none)

cache_vars == <<types_cache, cache_timestamp, written>>
task_vars == <<running, op, pc, stack, frame, ret, log>>
vars == <<env_key, api_key, types_cache, cache_timestamp, clock, running, op,
          pc, stack, frame, ret, log, fetches, written>>

NoRet == [kind |-> "none", err |-> "", val |-> <<>>]
NoFrame ==
    [now |-> 0, data |-> <<>>, fetch |-> 0, query |-> None, name |-> <<>>,
     lat |-> 0, lng |-> 0, radius_km |-> 0, type_id |-> None, limit |-> 0,
     params_types |-> None, loc_data |-> <<>>,
     fruit_type |-> None, fruit_type_info |-> None, locations |-> <<>>,
     month |-> 1, remote |-> <<>>]

\* FallingFruitAPI.__init__ after the module's import-time code.
Init ==
    /\ env_key \in EnvValues
    /\ api_key = API_KEY(env_key)
    /\ types_cache = None
    /\ cache_timestamp = None
    /\ clock = 0
    /\ running = 0
    /\ op = [t \in Tasks |-> ""]
    /\ pc = [t \in Tasks |-> "idle"]
    /\ stack = [t \in Tasks |-> <<>>]
    /\ frame = [t \in Tasks |-> NoFrame]
    /\ ret = [t \in Tasks |-> NoRet]
    /\ log = [t \in Tasks |-> <<>>]
    /\ fetches = 0
    /\ written = [coll |-> 0, ts |-> 0]

\* ------------------------------------------------ calls and returns
\* `return v`: to the caller when there is one, else the task is done.
Return(t, v) ==
    /\ ret' = [ret EXCEPT ![t] = [kind |-> "return", err |-> "", val |-> v]]
    /\ IF stack[t] = <<>>
       THEN /\ pc' = [pc EXCEPT ![t] = "done"]
            /\ running' = 0
            /\ stack' = stack
       ELSE /\ pc' = [pc EXCEPT ![t] = Head(stack[t])]
            /\ running' = t
            /\ stack' = [stack EXCEPT ![t] = Tail(stack[t])]

\* `raise`: no caller of the client catches, so the task ends with the error.
Raise(t, err) ==
    /\ ret' = [ret EXCEPT ![t] = [kind |-> "raise", err |-> err, val |-> <<>>]]
    /\ pc' = [pc EXCEPT ![t] = "done"]
    /\ running' = 0
    /\ stack' = [stack EXCEPT ![t] = <<>>]

\* The wall clock advances.
Tick(d) ==
    /\ clock + d <= MaxClock
    /\ clock' = clock + d
    /\ UNCHANGED <<env_key, api_key, cache_vars, task_vars, fetches>>

\* A task starts coroutine o with the arguments in f: it runs from `entry`
\* and returns through the labels of `stk`.
Call(t, o, entry, stk, f) ==
    /\ running = 0
    /\ pc[t] \in {"idle", "done"}
    /\ running' = t
    /\ op' = [op EXCEPT ![t] = o]
    /\ pc' = [pc EXCEPT ![t] = entry]
    /\ stack' = [stack EXCEPT ![t] = stk]
    /\ frame' = [frame EXCEPT ![t] = f]
    /\ ret' = [ret EXCEPT ![t] = NoRet]
    /\ log' = [log EXCEPT ![t] = <<>>]
    /\ UNCHANGED <<env_key, api_key, cache_vars, clock, fetches>>

\* ------------------------------------- FallingFruitAPI.get_all_types
\* CacheFresh with the comparison turned round.
CacheFresh_Inverted(now) ==
    /\ types_cache # None
    /\ cache_timestamp # None
    /\ now - cache_timestamp[1] > CacheDuration

\* CacheFresh with an entry of age exactly 24 hours still served.
CacheFresh_Inclusive(now) ==
    /\ types_cache # None
    /\ cache_timestamp # None
    /\ now - cache_timestamp[1] <= CacheDuration

\* The cache test of get_all_types.
CacheFresh(now) ==
    /\ types_cache # None
    /\ cache_timestamp # None
    /\ now - cache_timestamp[1] < CacheDuration

\* GAT_Check with the timestamp stored before the fetch is awaited.
GAT_Check_EarlyStamp(t) ==
    /\ pc[t] = "gat"
    /\ running = t
    /\ IF ~Truthy(api_key)
       THEN /\ Raise(t, "ValueError")
            /\ UNCHANGED <<frame, log, fetches, cache_vars>>
       ELSE LET now == clock
            IN  IF CacheFresh(now)
                THEN /\ Return(t, types_cache[1])
                     /\ UNCHANGED <<frame, log, fetches, cache_vars>>
                ELSE /\ fetches < MaxFetches
                     /\ fetches' = fetches + 1
                     /\ frame' = [frame EXCEPT ![t].now = now,
                                               ![t].fetch = fetches + 1]
                     /\ cache_timestamp' = Some(now)
                     /\ written' = [written EXCEPT !.ts = fetches + 1]
                     /\ log' = [log EXCEPT ![t] = Append(@, "GET /types")]
                     /\ pc' = [pc EXCEPT ![t] = "gat_await"]
                     /\ running' = 0
                     /\ UNCHANGED <<stack, ret, types_cache>>
    /\ UNCHANGED <<env_key, api_key, clock, op>>

\* From the entry to `await client.get(...)`: the key check, the cache
\* check, and on a miss the request.
GAT_Check(t) ==
    /\ pc[t] = "gat"
    /\ running = t
    /\ IF ~Truthy(api_key)
       THEN /\ Raise(t, "ValueError")
            /\ UNCHANGED <<frame, log, fetches>>
       ELSE LET now == clock
            IN  IF CacheFresh(now)
                THEN /\ Return(t, types_cache[1])
                     /\ UNCHANGED <<frame, log, fetches>>
                ELSE /\ fetches < MaxFetches
                     /\ fetches' = fetches + 1
                     /\ frame' = [frame EXCEPT ![t].now = now,
                                               ![t].fetch = fetches + 1]
                     /\ log' = [log EXCEPT ![t] = Append(@, "GET /types")]
                     /\ pc' = [pc EXCEPT ![t] = "gat_await"]
                     /\ running' = 0
                     /\ UNCHANGED <<stack, ret>>
    /\ UNCHANGED <<env_key, api_key, cache_vars, clock, op>>

\* GAT_Response with the entry stamped with its expiry time.
GAT_Response_StampsExpiry(t, data) ==
    /\ pc[t] = "gat_await"
    /\ running = 0
    /\ LET types == ParseTypes(data)
       IN  /\ types_cache' = Some(types)
           /\ cache_timestamp' = Some(frame[t].now + CacheDuration)
           /\ written' = [coll |-> frame[t].fetch, ts |-> frame[t].fetch]
           /\ frame' = [frame EXCEPT ![t].data = data]
           /\ Return(t, types)
    /\ UNCHANGED <<env_key, api_key, clock, op, log, fetches>>

\* The response arrived with a success status and body `data`:
\* the records are parsed, the cache is replaced, the list is returned.
GAT_Response(t, data) ==
    /\ pc[t] = "gat_await"
    /\ running = 0
    /\ LET types == ParseTypes(data)
       IN  /\ types_cache' = Some(types)
           /\ cache_timestamp' = Some(frame[t].now)
           /\ written' = [coll |-> frame[t].fetch, ts |-> frame[t].fetch]
           /\ frame' = [frame EXCEPT ![t].data = data]
           /\ Return(t, types)
    /\ UNCHANGED <<env_key, api_key, clock, op, log, fetches>>

\* GAT_Failure with the cache cleared on an error.
GAT_Failure_Clears(t, err) ==
    /\ pc[t] = "gat_await"
    /\ running = 0
    /\ Raise(t, err)
    /\ types_cache' = None
    /\ cache_timestamp' = None
    /\ written' = [coll |-> 0, ts |-> 0]
    /\ UNCHANGED <<env_key, api_key, clock, op, frame, log, fetches>>

\* client.get timed out, or raise_for_status() found an error status.
GAT_Failure(t, err) ==
    /\ pc[t] = "gat_await"
    /\ running = 0
    /\ Raise(t, err)
    /\ UNCHANGED <<env_key, api_key, cache_vars, clock, op, frame, log, fetches>>

TransportErrors == {"HTTPStatusError", "TimeoutException"}

\* ----------------------------------------- FallingFruitAPI.get_types
\* all_names = fruit_type.common_names + fruit_type.scientific_names
AllNames(fruit_type) == fruit_type.common_names \o fruit_type.scientific_names

RECURSIVE AnyNameContains(_, _)
\* The inner loop of get_types: stops at the first name that contains the query.
AnyNameContains(names, query_lower) ==
    IF names = <<>> THEN FALSE
    ELSE IF StrIn(query_lower, lower(Head(names))) THEN TRUE
    ELSE AnyNameContains(Tail(names), query_lower)

RECURSIVE FilterTypes_NoBreak(_, _)
\* FilterTypes without the `break`: a type is appended at each matching name.
FilterTypes_NoBreak(all_types, query_lower) ==
    IF all_types = <<>> THEN <<>>
    ELSE LET names == AllNames(Head(all_types))
             hits == {i \in 1..Len(names) : StrIn(query_lower, lower(names[i]))}
         IN  [i \in 1..Cardinality(hits) |-> Head(all_types)]
             \o FilterTypes_NoBreak(Tail(all_types), query_lower)

RECURSIVE FilterTypes(_, _)
\* The outer loop of get_types: a type is appended once, at its first match.
FilterTypes(all_types, query_lower) ==
    IF all_types = <<>> THEN <<>>
    ELSE (IF AnyNameContains(AllNames(Head(all_types)), query_lower)
          THEN <<Head(all_types)>> ELSE <<>>)
         \o FilterTypes(Tail(all_types), query_lower)

\* get_types after `all_types = await self.get_all_types()`.
GetTypesResult(all_types, query) ==
    IF ~Truthy(query) THEN all_types
    ELSE FilterTypes(all_types, lower(query[1]))

GT_Filter(t) ==
    /\ pc[t] = "gt_filter"
    /\ running = t
    /\ Return(t, GetTypesResult(ret[t].val, frame[t].query))
    /\ UNCHANGED <<env_key, api_key, cache_vars, clock, op, frame, log, fetches>>

\* ------------------------- FallingFruitAPI.find_fruit_type_by_name
RECURSIVE AnyNameEquals(_, _)
AnyNameEquals(names, name_lower) ==
    IF names = <<>> THEN FALSE
    ELSE IF lower(Head(names)) = name_lower THEN TRUE
    ELSE AnyNameEquals(Tail(names), name_lower)

RECURSIVE FirstExact(_, _)
\* The first loop: the first type with a name equal to name_lower.
FirstExact(all_types, name_lower) ==
    IF all_types = <<>> THEN None
    ELSE IF AnyNameEquals(AllNames(Head(all_types)), name_lower)
         THEN Some(Head(all_types))
    ELSE FirstExact(Tail(all_types), name_lower)

RECURSIVE FirstPartial(_, _)
\* The second loop: the first type with a name that contains name_lower.
FirstPartial(all_types, name_lower) ==
    IF all_types = <<>> THEN None
    ELSE IF AnyNameContains(AllNames(Head(all_types)), name_lower)
         THEN Some(Head(all_types))
    ELSE FirstPartial(Tail(all_types), name_lower)

\* FindByName without the partial-match pass.
FindByName_ExactOnly(all_types, name) ==
    FirstExact(all_types, lower(name))

\* FindByName without the exact-match pass.
FindByName_PartialOnly(all_types, name) ==
    FirstPartial(all_types, lower(name))

\* find_fruit_type_by_name after `all_types = await self.get_all_types()`.
FindByName(all_types, name) ==
    LET name_lower == lower(name)
        exact == FirstExact(all_types, name_lower)
    IN  IF exact # None THEN exact ELSE FirstPartial(all_types, name_lower)

FFN_Search(t) ==
    /\ pc[t] = "ffn_search"
    /\ running = t
    /\ Return(t, FindByName(ret[t].val, frame[t].name))
    /\ UNCHANGED <<env_key, api_key, cache_vars, clock, op, frame, log, fetches>>

\* ------------------------------ FallingFruitAPI._calculate_distance
\* Angles are in 1/Scale radians and sines in 1/Scale; coordinates are
\* whole degrees and the distance is in metres.
Scale == 10000
Pi == 31416
HalfPi == 15708

Abs(x) == IF x < 0 THEN -x ELSE x

\* Division that truncates toward zero.
Quot(x, d) == IF x < 0 THEN -((-x) \div d) ELSE x \div d

\* math.radians on whole degrees.
Radians(deg) == Quot(deg * 17453, 100)

\* The sine series on [0, pi/2].
SinSeries(x) ==
    LET x2 == (x * x) \div Scale
        t3 == ((x * x2) \div Scale) \div 6
        t5 == ((t3 * x2) \div Scale) \div 20
        t7 == ((t5 * x2) \div Scale) \div 42
        t9 == ((t7 * x2) \div Scale) \div 72
    IN  x - t3 + t5 - t7 + t9

RECURSIVE Sin(_)
\* math.sin
Sin(x) ==
    IF x < 0 THEN -Sin(-x)
    ELSE IF x > Pi THEN -Sin(x - Pi)
    ELSE IF x > HalfPi THEN SinSeries(Pi - x)
    ELSE SinSeries(x)

\* math.cos
Cos(x) == Sin(HalfPi - x)

RECURSIVE SqrtBetween(_, _, _)
SqrtBetween(n, lo, hi) ==
    IF hi - lo <= 1 THEN lo
    ELSE LET mid == (lo + hi) \div 2
         IN  IF mid * mid <= n THEN SqrtBetween(n, mid, hi)
             ELSE SqrtBetween(n, lo, mid)

\* math.sqrt of a in 1/Scale^2, in 1/Scale.
Sqrt(a) == SqrtBetween(a, 0, Scale + 1)

RECURSIVE AsinBetween(_, _, _)
AsinBetween(y, lo, hi) ==
    IF hi - lo <= 1 THEN lo
    ELSE LET mid == (lo + hi) \div 2
         IN  IF SinSeries(mid) <= y THEN AsinBetween(y, mid, hi)
             ELSE AsinBetween(y, lo, mid)

\* math.asin on [0, 1]: the angle in [0, pi/2] with that sine.
Asin(y) == IF y >= Scale THEN HalfPi ELSE AsinBetween(y, 0, HalfPi)

\* Earth's radius in kilometers.
R == 6371

\* The haversine distance, in metres.
CalculateDistance(lat1, lng1, lat2, lng2) ==
    LET rlat1 == Radians(lat1)
        rlng1 == Radians(lng1)
        rlat2 == Radians(lat2)
        rlng2 == Radians(lng2)
        dlat == rlat2 - rlat1
        dlng == rlng2 - rlng1
        sdlat == Sin(Quot(dlat, 2))
        sdlng == Sin(Quot(dlng, 2))
        coscos == Quot(Cos(rlat1) * Cos(rlat2), Scale)
        a == sdlat * sdlat
             + Quot(coscos * Abs(sdlng), Scale) * Abs(sdlng)
        c == 2 * Asin(Sqrt(IF a < 0 THEN 0 ELSE a))
    IN  (R * c) \div 10

\* ---------------------------------------- FallingFruitAPI.get_locations
\* A raw record of the remote "locations" collection; a field that is
\* missing (or null where the model requires a value) is None.
RawLoc(id, lat, lng, type_ids, season_start, season_stop) ==
    [id |-> id, lat |-> lat, lng |-> lng, type_ids |-> type_ids,
     season_start |-> season_start, season_stop |-> season_stop]

\* FruitLocation(**item): None when pydantic's validation raises
\* (id, lat and lng are required).
ParseLocation(item) ==
    IF item.id = None \/ item.lat = None \/ item.lng = None THEN None
    ELSE Some([id |-> item.id[1], lat |-> item.lat[1], lng |-> item.lng[1],
               type_ids |-> item.type_ids, description |-> <<>>, access |-> 0,
               season_start |-> item.season_start,
               season_stop |-> item.season_stop])

\* WithinRadius without the distance test.
WithinRadius_NoDistance(lat, lng, location, radius_km) == radius_km # 0

\* if radius_km and self._calculate_distance(...) <= radius_km
WithinRadius(lat, lng, location, radius_km) ==
    /\ radius_km # 0
    /\ CalculateDistance(lat, lng, location.lat, location.lng) <= radius_km * 1000

RECURSIVE FilterLocations(_, _, _, _)
\* The loop over data: a record that raises is skipped, a record out of
\* the radius is not appended.
FilterLocations(data, lat, lng, radius_km) ==
    IF data = <<>> THEN <<>>
    ELSE LET location == ParseLocation(Head(data))
         IN  (IF location # None
                 /\ WithinRadius(lat, lng, location[1], radius_km)
              THEN location ELSE <<>>)
             \o FilterLocations(Tail(data), lat, lng, radius_km)

\* Python's s[:n].
SliceTo(s, n) ==
    IF n >= 0 THEN SubSeq(s, 1, IF n < Len(s) THEN n ELSE Len(s))
    ELSE SubSeq(s, 1, IF Len(s) + n > 0 THEN Len(s) + n ELSE 0)

\* GL_Request without the key check.
GL_Request_NoKeyCheck(t) ==
    /\ pc[t] = "gl"
    /\ running = t
    /\ frame' = [frame EXCEPT ![t].params_types =
                     IF frame[t].type_id # None /\ frame[t].type_id[1] # 0
                     THEN frame[t].type_id ELSE None]
    /\ log' = [log EXCEPT ![t] = Append(@, "GET /locations")]
    /\ pc' = [pc EXCEPT ![t] = "gl_await"]
    /\ running' = 0
    /\ UNCHANGED <<stack, ret>>
    /\ UNCHANGED <<env_key, api_key, cache_vars, clock, op, fetches>>

\* From the entry to `await client.get(...)`: the key check and the request.
GL_Request(t) ==
    /\ pc[t] = "gl"
    /\ running = t
    /\ IF ~Truthy(api_key)
       THEN /\ Raise(t, "ValueError")
            /\ UNCHANGED <<frame, log>>
       ELSE /\ frame' = [frame EXCEPT ![t].params_types =
                            IF frame[t].type_id # None /\ frame[t].type_id[1] # 0
                            THEN frame[t].type_id ELSE None]
            /\ log' = [log EXCEPT ![t] = Append(@, "GET /locations")]
            /\ pc' = [pc EXCEPT ![t] = "gl_await"]
            /\ running' = 0
            /\ UNCHANGED <<stack, ret>>
    /\ UNCHANGED <<env_key, api_key, cache_vars, clock, op, fetches>>

\* GL_Response with the distance filter left out when a category filter
\* was sent.
GL_Response_TrustsFilter(t, data) ==
    /\ pc[t] = "gl_await"
    /\ running = 0
    /\ frame' = [frame EXCEPT ![t].loc_data = data]
    /\ Return(t, SliceTo(IF frame[t].params_types # None
                         THEN FilterLocations(data, frame[t].lat, frame[t].lng, 20000)
                         ELSE FilterLocations(data, frame[t].lat, frame[t].lng,
                                              frame[t].radius_km),
                         frame[t].limit))
    /\ UNCHANGED <<env_key, api_key, cache_vars, clock, op, log, fetches>>

\* The response arrived with a success status and body `data`.
GL_Response(t, data) ==
    /\ pc[t] = "gl_await"
    /\ running = 0
    /\ frame' = [frame EXCEPT ![t].loc_data = data]
    /\ Return(t, SliceTo(FilterLocations(data, frame[t].lat, frame[t].lng,
                                         frame[t].radius_km),
                         frame[t].limit))
    /\ UNCHANGED <<env_key, api_key, cache_vars, clock, op, log, fetches>>

\* GL_Failure with the request sent a second time after a first failure.
GL_Failure_RetryOnce(t, err) ==
    /\ pc[t] = "gl_await"
    /\ running = 0
    /\ IF Len(SelectSeq(log[t], LAMBDA e : e = "GET /locations")) < 2
       THEN /\ pc' = [pc EXCEPT ![t] = "gl"]
            /\ running' = t
            /\ UNCHANGED <<stack, ret>>
       ELSE Raise(t, err)
    /\ UNCHANGED <<env_key, api_key, cache_vars, clock, op, frame, log, fetches>>

\* client.get timed out, or raise_for_status() found an error status.
GL_Failure(t, err) ==
    /\ pc[t] = "gl_await"
    /\ running = 0
    /\ Raise(t, err)
    /\ UNCHANGED <<env_key, api_key, cache_vars, clock, op, frame, log, fetches>>

\* -------------------------------------- LocationHelper.geocode_location
\* geolocator.geocode is a blocking call: the task keeps the event loop
\* from the request to the answer.
GEO_Request(t) ==
    /\ pc[t] = "geo"
    /\ running = t
    /\ log' = [log EXCEPT ![t] = Append(@, "geocode")]
    /\ pc' = [pc EXCEPT ![t] = "geo_wait"]
    /\ UNCHANGED <<env_key, api_key, cache_vars, clock, running, op, stack,
                   frame, ret, fetches>>

\* GEO_Result with the geocoder's exception let through.
GEO_Result_Propagates(t, outcome, coords) ==
    /\ pc[t] = "geo_wait"
    /\ running = t
    /\ IF outcome = "raises" THEN Raise(t, "GeocoderError")
       ELSE Return(t, IF outcome = "match" THEN Some(coords) ELSE None)
    /\ UNCHANGED <<env_key, api_key, cache_vars, clock, op, frame, log, fetches>>

\* The geocoder answered: a match (geo = <<lat, lng>> in a one-tuple), no
\* match, or an exception, which is caught; the last two return None.
GEO_Result(t, outcome, coords) ==
    /\ pc[t] = "geo_wait"
    /\ running = t
    /\ Return(t, IF outcome = "match" THEN Some(coords) ELSE None)
    /\ UNCHANGED <<env_key, api_key, cache_vars, clock, op, frame, log, fetches>>

GeoOutcomes == {"match", "no_match", "raises"}

\* --------------------------------------------------------- SeasonHelper
IsInSeason(season_start, season_stop, current_month) ==
    IF season_start = None \/ season_stop = None THEN TRUE
    ELSE IF season_start[1] <= season_stop[1]
         THEN season_start[1] <= current_month /\ current_month <= season_stop[1]
    ELSE current_month >= season_start[1] \/ current_month <= season_stop[1]

\* ------------------------------------------------------------ the tools
\* The dict a tool returns, reduced to: success, the kind of error, the
\* resolved fruit type, the count and the items found.
ToolResult(success, error, fruit_type, total_found, items) ==
    [success |-> success, error |-> error, fruit_type |-> fruit_type,
     total_found |-> total_found, items |-> items]

LocationNotFound == ToolResult(FALSE, "location_not_found", None, 0, <<>>)

\* Jump to a callee, which returns through `labels`.
Jump(t, entry, labels) ==
    /\ pc' = [pc EXCEPT ![t] = entry]
    /\ stack' = [stack EXCEPT ![t] = labels \o @]
    /\ UNCHANGED <<running, ret>>

\* {"id", "name", "scientific_name"} of types[0].
TypeInfo(ft) == [id |-> ft.id, name |-> ft.name, scientific_name |-> ft.scientific_name]

\* search_fruit_locations, after the geocoding.
SFL_Geocoded(t) ==
    /\ pc[t] = "sfl_geocoded"
    /\ running = t
    /\ LET geo_result == ret[t].val
       IN  IF geo_result = None
           THEN /\ Return(t, LocationNotFound)
                /\ UNCHANGED frame
           ELSE IF Truthy(frame[t].fruit_type)
           THEN /\ frame' = [frame EXCEPT ![t].lat = geo_result[1][1],
                                          ![t].lng = geo_result[1][2],
                                          ![t].query = frame[t].fruit_type]
                /\ Jump(t, "gat", <<"gt_filter", "sfl_types">>)
           ELSE /\ frame' = [frame EXCEPT ![t].lat = geo_result[1][1],
                                          ![t].lng = geo_result[1][2],
                                          ![t].type_id = None,
                                          ![t].fruit_type_info = None,
                                          ![t].limit = 50]
                /\ Jump(t, "gl", <<"sfl_locs">>)
    /\ UNCHANGED <<env_key, api_key, cache_vars, clock, op, log, fetches>>

\* search_fruit_locations, after get_types(fruit_type).
SFL_Types(t) ==
    /\ pc[t] = "sfl_types"
    /\ running = t
    /\ LET types == ret[t].val
       IN  frame' = [frame EXCEPT
                ![t].type_id = IF types # <<>> THEN Some(types[1].id) ELSE None,
                ![t].fruit_type_info =
                    IF types # <<>> THEN Some(TypeInfo(types[1])) ELSE None,
                ![t].limit = 50]
    /\ Jump(t, "gl", <<"sfl_locs">>)
    /\ UNCHANGED <<env_key, api_key, cache_vars, clock, op, log, fetches>>

\* search_fruit_locations, after get_locations.
SFL_Locs(t) ==
    /\ pc[t] = "sfl_locs"
    /\ running = t
    /\ LET locations == ret[t].val
       IN  Return(t, ToolResult(TRUE, "", frame[t].fruit_type_info,
                                Len(locations), locations))
    /\ UNCHANGED <<env_key, api_key, cache_vars, clock, op, frame, log, fetches>>

RECURSIVE InSeason(_, _)
\* [loc for loc in locations if SeasonHelper.is_in_season(...)]
InSeason(locations, current_month) ==
    IF locations = <<>> THEN <<>>
    ELSE (IF IsInSeason(Head(locations).season_start,
                        Head(locations).season_stop, current_month)
          THEN <<Head(locations)>> ELSE <<>>)
         \o InSeason(Tail(locations), current_month)

\* get_seasonal_fruits, after the geocoding.
GSF_Geocoded(t) ==
    /\ pc[t] = "gsf_geocoded"
    /\ running = t
    /\ LET geo_result == ret[t].val
       IN  IF geo_result = None
           THEN /\ Return(t, LocationNotFound)
                /\ UNCHANGED frame
           ELSE /\ frame' = [frame EXCEPT ![t].lat = geo_result[1][1],
                                          ![t].lng = geo_result[1][2],
                                          ![t].type_id = None,
                                          ![t].limit = 100]
                /\ Jump(t, "gl", <<"gsf_locs">>)
    /\ UNCHANGED <<env_key, api_key, cache_vars, clock, op, log, fetches>>

\* get_seasonal_fruits, after get_locations.
GSF_Locs(t) ==
    /\ pc[t] = "gsf_locs"
    /\ running = t
    /\ LET seasonal_locations == InSeason(ret[t].val, frame[t].month)
       IN  IF seasonal_locations = <<>>
           THEN /\ Return(t, ToolResult(TRUE, "", None, 0, <<>>))
                /\ UNCHANGED frame
           ELSE /\ frame' = [frame EXCEPT ![t].locations = seasonal_locations,
                                          ![t].query = None]
                /\ Jump(t, "gat", <<"gt_filter", "gsf_types">>)
    /\ UNCHANGED <<env_key, api_key, cache_vars, clock, op, log, fetches>>

\* get_seasonal_fruits, after get_types(): the grouping by type is left out.
GSF_Types(t) ==
    /\ pc[t] = "gsf_types"
    /\ running = t
    /\ Return(t, ToolResult(TRUE, "", None, Len(frame[t].locations),
                            frame[t].locations))
    /\ UNCHANGED <<env_key, api_key, cache_vars, clock, op, frame, log, fetches>>

RECURSIVE NameSuggestions(_, _, _)
NameSuggestions(ft, names, name_lower) ==
    IF names = <<>> THEN <<>>
    ELSE (IF StrIn(name_lower, lower(Head(names)))
          THEN <<[id |-> ft.id, name |-> Head(names)]>> ELSE <<>>)
         \o NameSuggestions(ft, Tail(names), name_lower)

RECURSIVE AllSuggestions(_, _)
AllSuggestions(all_types, name_lower) ==
    IF all_types = <<>> THEN <<>>
    ELSE NameSuggestions(Head(all_types), AllNames(Head(all_types)), name_lower)
         \o AllSuggestions(Tail(all_types), name_lower)

\* The suggestion loops of get_id_for_fruit: every (type, name) whose name
\* contains the search term, in order; both loops stop at five.
Suggestions(all_types, fruit_name) ==
    SliceTo(AllSuggestions(all_types, lower(fruit_name)), 5)

\* get_id_for_fruit, after find_fruit_type_by_name.
GIF_Found(t) ==
    /\ pc[t] = "gif_found"
    /\ running = t
    /\ LET fruit_type == ret[t].val
       IN  IF fruit_type = None
           THEN Jump(t, "gat", <<"gif_suggest">>)
           ELSE Return(t, ToolResult(TRUE, "", fruit_type, 1, <<>>))
    /\ UNCHANGED <<env_key, api_key, cache_vars, clock, op, frame, log, fetches>>

\* get_id_for_fruit, after get_all_types.
GIF_Suggest(t) ==
    /\ pc[t] = "gif_suggest"
    /\ running = t
    /\ Return(t, ToolResult(FALSE, "no_match", None, 0,
                            Suggestions(ret[t].val, frame[t].name)))
    /\ UNCHANGED <<env_key, api_key, cache_vars, clock, op, frame, log, fetches>>

\* find_fruit_types, after get_types(query).
FFT_Types(t) ==
    /\ pc[t] = "fft_types"
    /\ running = t
    /\ LET types == ret[t].val
       IN  Return(t, ToolResult(TRUE, "", None, Len(types), types))
    /\ UNCHANGED <<env_key, api_key, cache_vars, clock, op, frame, log, fetches>>

\* get_location_details, after the geocoding.
GLD_Geocoded(t) ==
    /\ pc[t] = "gld_geocoded"
    /\ running = t
    /\ LET geo_result == ret[t].val
       IN  IF geo_result = None
           THEN /\ Return(t, LocationNotFound)
                /\ UNCHANGED frame
           ELSE IF Truthy(frame[t].fruit_type)
           THEN /\ frame' = [frame EXCEPT ![t].lat = geo_result[1][1],
                                          ![t].lng = geo_result[1][2],
                                          ![t].query = frame[t].fruit_type]
                /\ Jump(t, "gat", <<"gt_filter", "gld_types">>)
           ELSE /\ frame' = [frame EXCEPT ![t].lat = geo_result[1][1],
                                          ![t].lng = geo_result[1][2],
                                          ![t].type_id = None,
                                          ![t].fruit_type_info = None,
                                          ![t].limit = 20]
                /\ Jump(t, "gl", <<"gld_locs">>)
    /\ UNCHANGED <<env_key, api_key, cache_vars, clock, op, log, fetches>>

\* get_location_details, after get_types(fruit_type).
GLD_Types(t) ==
    /\ pc[t] = "gld_types"
    /\ running = t
    /\ LET types == ret[t].val
       IN  frame' = [frame EXCEPT
                ![t].type_id = IF types # <<>> THEN Some(types[1].id) ELSE None,
                ![t].fruit_type_info =
                    IF types # <<>> THEN Some(TypeInfo(types[1])) ELSE None,
                ![t].limit = 20]
    /\ Jump(t, "gl", <<"gld_locs">>)
    /\ UNCHANGED <<env_key, api_key, cache_vars, clock, op, log, fetches>>

\* get_location_details, after get_locations.
GLD_Locs(t) ==
    /\ pc[t] = "gld_locs"
    /\ running = t
    /\ LET locations == ret[t].val
       IN  IF locations = <<>>
           THEN /\ Return(t, ToolResult(TRUE, "", frame[t].fruit_type_info, 0, <<>>))
                /\ UNCHANGED frame
           ELSE /\ frame' = [frame EXCEPT ![t].locations = locations,
                                          ![t].query = None]
                /\ Jump(t, "gat", <<"gt_filter", "gld_alltypes">>)
    /\ UNCHANGED <<env_key, api_key, cache_vars, clock, op, log, fetches>>

\* get_location_details, after get_types(): the sort by distance is left out.
GLD_AllTypes(t) ==
    /\ pc[t] = "gld_alltypes"
    /\ running = t
    /\ Return(t, ToolResult(TRUE, "", frame[t].fruit_type_info,
                            Len(frame[t].locations), frame[t].locations))
    /\ UNCHANGED <<env_key, api_key, cache_vars, clock, op, frame, log, fetches>>

\* get_directions_to_fruit, after the geocoding.
GDF_Geocoded(t) ==
    /\ pc[t] = "gdf_geocoded"
    /\ running = t
    /\ LET geo_result == ret[t].val
       IN  IF geo_result = None
           THEN Return(t, LocationNotFound)
           ELSE Return(t, ToolResult(TRUE, "", None, 0, <<>>))
    /\ UNCHANGED <<env_key, api_key, cache_vars, clock, op, frame, log, fetches>>

\* ------------------------------------------------------------ inputs
MaxRecords == 2

\* The tuples over S of length at most n.
RECURSIVE SeqsUpTo(_, _)
SeqsUpTo(S, n) ==
    IF n = 0 THEN {<<>>}
    ELSE LET shorter == SeqsUpTo(S, n - 1)
         IN  shorter \cup {Append(q, x) : q \in shorter, x \in S}

\* The bodies the remote "types" collection answers with.
TypesBodies == {<<RawCrab, RawNoId, RawApple>>, <<RawSciOnly>>}

RawTypes ==
    {RawApple, RawCrab, RawMulti, RawNoNames, RawSciOnly, RawBadLang, RawNoId,
     RawBadId}
SearchBodies == SeqsUpTo(RawTypes, MaxRecords) \cup {<<RawCrab, RawNoId, RawApple>>}

\* query: Optional[str]
Queries ==
    {None, Some(<<>>), Some(<<"a">>), Some(<<"A">>), Some(<<"b">>),
     Some(<<"a", "b">>), Some(<<"B", "A">>), Some(<<"a", "a">>)}
\* name: str
Names == {q[1] : q \in Queries \ {None}}

\* Records of the remote "locations" collection around the centre (0, 0).
LocCentre == RawLoc(Some(1), Some(0), Some(0), <<1>>, None, None)
LocNear == RawLoc(Some(2), Some(0), Some(1), <<1, 2>>, Some(6), Some(9))
LocDiag == RawLoc(Some(3), Some(1), Some(1), <<>>, Some(11), Some(2))
LocFar == RawLoc(Some(4), Some(0), Some(-2), <<2>>, Some(13), None)
LocPolar == RawLoc(Some(5), Some(95), Some(0), <<2>>, None, Some(3))
LocNoLat == RawLoc(Some(6), None, Some(0), <<1>>, None, None)
LocNoId == RawLoc(None, Some(0), Some(0), <<1>>, None, None)

RawLocs == {LocCentre, LocNear, LocDiag, LocFar, LocPolar, LocNoLat, LocNoId}
LocBodies == SeqsUpTo(RawLocs, MaxRecords) \cup {<<LocFar, LocNear, LocNoLat, LocCentre>>}

Radii == {-1, 0, 112, 160, 20000}
Limits == {-1, 0, 1, 2, 100}
TypeIds == {None, Some(0), Some(1)}

GetTypesArgs(q) == [NoFrame EXCEPT !.query = q]
FindArgs(n) == [NoFrame EXCEPT !.name = n]
GetLocationsArgs(lat, lng, radius_km, type_id, limit) ==
    [NoFrame EXCEPT !.lat = lat, !.lng = lng, !.radius_km = radius_km,
                    !.type_id = type_id, !.limit = limit]

\* ------------------------------------------------------ specifications
\* Concurrent get_all_types() calls on one client.
Next ==
    \/ \E d \in TickSteps : Tick(d)
    \/ \E t \in Tasks : Call(t, "get_all_types", "gat", <<>>, NoFrame)
    \/ \E t \in Tasks : GAT_Check(t)
    \/ \E t \in Tasks, data \in TypesBodies : GAT_Response(t, data)
    \/ \E t \in Tasks, err \in TransportErrors : GAT_Failure(t, err)

Spec == Init /\ [][Next]_vars

\* The client's four coroutines, one call at a time.
NextClient ==
    \/ \E d \in TickSteps : Tick(d)
    \/ Call(1, "get_all_types", "gat", <<>>, NoFrame)
    \/ \E q \in {None, Some(<<"a">>)} :
           Call(1, "get_types", "gat", <<"gt_filter">>, GetTypesArgs(q))
    \/ Call(1, "find_fruit_type_by_name", "gat", <<"ffn_search">>,
            FindArgs(<<"a">>))
    \/ \E r \in {0, 112}, l \in {1, 2} :
           Call(1, "get_locations", "gl", <<>>,
                GetLocationsArgs(0, 0, r, None, l))
    \/ GAT_Check(1)
    \/ \E data \in TypesBodies : GAT_Response(1, data)
    \/ \E err \in TransportErrors : GAT_Failure(1, err)
    \/ GT_Filter(1)
    \/ FFN_Search(1)
    \/ GL_Request(1)
    \/ \E data \in {<<LocFar, LocNear>>, <<LocCentre>>} : GL_Response(1, data)
    \/ \E err \in TransportErrors : GL_Failure(1, err)

SpecClient == Init /\ [][NextClient]_vars

\* get_types and find_fruit_type_by_name over every cached taxonomy.
NextSearch ==
    \/ \E q \in Queries :
           Call(1, "get_types", "gat", <<"gt_filter">>, GetTypesArgs(q))
    \/ \E n \in Names :
           Call(1, "find_fruit_type_by_name", "gat", <<"ffn_search">>, FindArgs(n))
    \/ GAT_Check(1)
    \/ \E data \in SearchBodies : GAT_Response(1, data)
    \/ \E err \in TransportErrors : GAT_Failure(1, err)
    \/ GT_Filter(1)
    \/ FFN_Search(1)

SpecSearch == Init /\ [][NextSearch]_vars

\* get_locations over every centre-(0, 0) request and remote response.
NextLoc ==
    \/ \E r \in Radii, ty \in TypeIds, l \in Limits :
           Call(1, "get_locations", "gl", <<>>, GetLocationsArgs(0, 0, r, ty, l))
    \/ GL_Request(1)
    \/ \E data \in LocBodies : GL_Response(1, data)
    \/ \E err \in TransportErrors : GL_Failure(1, err)

SpecLoc == Init /\ [][NextLoc]_vars

\* The tools' inputs.
GeoCoords == {<<0, 0>>}
FruitNames == {<<"a">>, <<"b">>, <<"a", "a">>, <<"B", "A">>}
Months == {1, 7}
ToolLocBodies == {<<LocFar, LocNear>>, <<LocCentre>>, <<>>}

SearchArgs(fruit_type, radius_km) ==
    [NoFrame EXCEPT !.fruit_type = fruit_type, !.radius_km = radius_km]
SeasonalArgs(radius_km, month) ==
    [NoFrame EXCEPT !.radius_km = radius_km, !.month = month]

\* The tools, one call at a time.
NextTools ==
    \/ \E d \in TickSteps : Tick(d)
    \/ \E ft \in {None, Some(<<>>)} \cup {Some(n) : n \in FruitNames} :
           Call(1, "search_fruit_locations", "geo", <<"sfl_geocoded">>,
                SearchArgs(ft, 112))
    \/ \E m \in Months :
           Call(1, "get_seasonal_fruits", "geo", <<"gsf_geocoded">>,
                SeasonalArgs(112, m))
    \/ \E n \in FruitNames :
           Call(1, "get_id_for_fruit", "gat", <<"ffn_search", "gif_found">>,
                FindArgs(n))
    \/ \E n \in FruitNames :
           Call(1, "find_fruit_types", "gat", <<"gt_filter", "fft_types">>,
                GetTypesArgs(Some(n)))
    \/ \E ft \in {None} \cup {Some(n) : n \in FruitNames} :
           Call(1, "get_location_details", "geo", <<"gld_geocoded">>,
                SearchArgs(ft, 112))
    \/ Call(1, "get_directions_to_fruit", "geo", <<"gdf_geocoded">>, NoFrame)
    \/ GEO_Request(1)
    \/ \E o \in GeoOutcomes, c \in GeoCoords : GEO_Result(1, o, c)
    \/ GAT_Check(1)
    \/ \E data \in TypesBodies : GAT_Response(1, data)
    \/ \E err \in TransportErrors : GAT_Failure(1, err)
    \/ GT_Filter(1)
    \/ FFN_Search(1)
    \/ GL_Request(1)
    \/ \E data \in ToolLocBodies : GL_Response(1, data)
    \/ \E err \in TransportErrors : GL_Failure(1, err)
    \/ SFL_Geocoded(1)
    \/ SFL_Types(1)
    \/ SFL_Locs(1)
    \/ GSF_Geocoded(1)
    \/ GSF_Locs(1)
    \/ GSF_Types(1)
    \/ GIF_Found(1)
    \/ GIF_Suggest(1)
    \/ FFT_Types(1)
    \/ GLD_Geocoded(1)
    \/ GLD_Types(1)
    \/ GLD_Locs(1)
    \/ GLD_AllTypes(1)
    \/ GDF_Geocoded(1)

SpecTools == Init /\ [][NextTools]_vars

\* The remote "locations" collection: the answer to a request with the
\* optional category filter `types` and the result cap `limit` is the
\* first `limit` records, in the remote's order, of those of the category.
\* The radius is not part of the request, and the remote's order is its own.
RemoteLocations(catalog, types, limit) ==
    SliceTo(SelectSeq(catalog,
                      LAMBDA item :
                          types = None
                          \/ \E i \in 1..Len(item.type_ids) : item.type_ids[i] = types[1]),
            limit)

\* The contents of the remote collection.
RemoteCatalogs ==
    {<<>>, <<LocCentre, LocNear>>, <<LocFar, LocNear>>, <<LocNoId, LocNear>>,
     <<LocNear, LocFar, LocCentre>>, <<LocDiag, LocNoLat, LocNear, LocCentre>>}

RemoteArgs(remote, radius_km, type_id, limit) ==
    [GetLocationsArgs(0, 0, radius_km, type_id, limit) EXCEPT !.remote = remote]

\* Two get_locations() calls side by side, task 1 without a category
\* filter and task 2 with one, each answered from the remote collection
\* as it is when the call is made.
NextRemote ==
    \/ \E cat \in RemoteCatalogs, l \in {1, 2} :
           Call(1, "get_locations", "gl", <<>>, RemoteArgs(cat, 112, None, l))
    \/ \E cat \in RemoteCatalogs, ty \in {Some(0), Some(1), Some(2)}, l \in {1, 2} :
           Call(2, "get_locations", "gl", <<>>, RemoteArgs(cat, 112, ty, l))
    \/ \E t \in {1, 2} : GL_Request(t)
    \/ \E t \in {1, 2} :
           GL_Response(t, RemoteLocations(frame[t].remote, frame[t].params_types,
                                          frame[t].limit))
    \/ \E t \in {1, 2}, err \in TransportErrors : GL_Failure(t, err)

SpecRemote == Init /\ [][NextRemote]_vars

\* Two tool calls scheduled on the one event loop: a tool that geocodes
\* next to the client's two fetching coroutines.
NextConcurrent ==
    \/ \E t \in {1, 2} :
           Call(t, "get_directions_to_fruit", "geo", <<"gdf_geocoded">>, NoFrame)
    \/ \E t \in {1, 2} : Call(t, "get_all_types", "gat", <<>>, NoFrame)
    \/ \E t \in {1, 2} :
           Call(t, "get_locations", "gl", <<>>, GetLocationsArgs(0, 0, 112, None, 2))
    \/ \E t \in {1, 2} : GEO_Request(t)
    \/ \E t \in {1, 2}, o \in GeoOutcomes, c \in GeoCoords : GEO_Result(t, o, c)
    \/ \E t \in {1, 2} : GDF_Geocoded(t)
    \/ \E t \in {1, 2} : GAT_Check(t)
    \/ \E t \in {1, 2}, data \in TypesBodies : GAT_Response(t, data)
    \/ \E t \in {1, 2}, err \in TransportErrors : GAT_Failure(t, err)
    \/ \E t \in {1, 2} : GL_Request(t)
    \/ \E t \in {1, 2}, data \in ToolLocBodies : GL_Response(t, data)
    \/ \E t \in {1, 2}, err \in TransportErrors : GL_Failure(t, err)

SpecConcurrent == Init /\ [][NextConcurrent]_vars

\* ============================================================== claims
\* A stored entry whose age, now minus the capture timestamp, is under
\* 24 hours.
FreshEntry ==
    /\ types_cache # None
    /\ cache_timestamp # None
    /\ clock - cache_timestamp[1] < 24

\* Task t runs get_all_types from its entry to its return or its await.
EntersGetAllTypes(t) == pc[t] = "gat" /\ pc'[t] # "gat"

\* Task t's awaited GET /types ends.
LeavesTypesFetch(t) == pc[t] = "gat_await" /\ pc'[t] # "gat_await"

Returned(t, v) == [kind |-> "return", err |-> "", val |-> v]

\* C1: a get_all_types() call on a client with an API key that finds a
\* stored entry younger than 24 hours returns exactly the stored
\* collection, issues no request, and leaves the stored collection and
\* timestamp unchanged.
C1_CacheHit ==
    [][\A t \in Tasks :
         (EntersGetAllTypes(t) /\ api_key # None /\ FreshEntry)
         => /\ ret'[t] = Returned(t, types_cache[1])
            /\ pc'[t] = "done"
            /\ log'[t] = <<>>
            /\ fetches' = fetches
            /\ types_cache' = types_cache
            /\ cache_timestamp' = cache_timestamp]_vars

\* A call served from an entry stored by an earlier fetch: no request.
C1_Witness ==
    \E t \in Tasks :
        /\ pc[t] = "done"
        /\ ret[t].kind = "return"
        /\ log[t] = <<>>
        /\ ret[t].val # <<>>
        /\ types_cache = Some(ret[t].val)
        /\ clock - cache_timestamp[1] = 12

\* C2: a get_all_types() call that finds no stored entry, or one of age
\* 24 hours or more, issues exactly one GET of the types collection; when
\* the fetch succeeds it replaces the stored collection and the stored
\* timestamp and returns the newly parsed collection.
C2_MissRefetches ==
    [][\A t \in Tasks :
         /\ (EntersGetAllTypes(t) /\ api_key # None /\ ~FreshEntry)
            => /\ pc'[t] = "gat_await"
               /\ log'[t] = <<"GET /types">>
               /\ fetches' = fetches + 1
         /\ (LeavesTypesFetch(t) /\ ret'[t].kind = "return")
            => /\ ret'[t].val = ParseTypes(frame'[t].data)
               /\ types_cache' = Some(ret'[t].val)
               /\ cache_timestamp' = Some(frame[t].now)
               /\ log'[t] = <<"GET /types">>
               /\ fetches' = fetches]_vars

\* One task alone: its second fetch, made at age exactly 24 hours of the
\* entry its first fetch stored, has replaced the entry.
C2_Witness ==
    \E t \in Tasks :
        /\ \A u \in Tasks \ {t} : pc[u] = "idle"
        /\ pc[t] = "done"
        /\ ret[t].kind = "return"
        /\ log[t] = <<"GET /types">>
        /\ fetches = 2
        /\ written = [coll |-> 2, ts |-> 2]
        /\ frame[t].now = 24
        /\ cache_timestamp = Some(24)
        /\ types_cache = Some(ret[t].val)

\* C3: when the types fetch ends in an error status or a timeout, the
\* call fails with that error and the stored collection and timestamp
\* are as they were before.
C3_FailureKeepsCache ==
    [][\A t \in Tasks :
         (LeavesTypesFetch(t) /\ ret'[t].kind # "return")
         => /\ ret'[t].kind = "raise"
            /\ ret'[t].err \in TransportErrors
            /\ pc'[t] = "done"
            /\ types_cache' = types_cache
            /\ cache_timestamp' = cache_timestamp]_vars

\* A fetch that timed out while an expired entry was stored: the entry
\* is still there.
C3_Witness ==
    \E t \in Tasks :
        /\ \A u \in Tasks \ {t} : pc[u] = "idle"
        /\ pc[t] = "done"
        /\ ret[t] = [kind |-> "raise", err |-> "TimeoutException", val |-> <<>>]
        /\ types_cache # None
        /\ cache_timestamp = Some(0)
        /\ frame[t].now = 24

\* The stored collection or timestamp changes.
CacheChanges ==
    types_cache' # types_cache \/ cache_timestamp' # cache_timestamp

\* C4: under any interleaving of concurrent get_all_types() calls, a
\* call returns a fresh stored collection or the result of its own
\* complete fetch, and the cache is consistent: collection and timestamp
\* are both absent or both written by the same completed fetch, each
\* write replacing the whole entry (the last write wins).
C4_ConsistentCache ==
    /\ [](/\ (types_cache = None) = (cache_timestamp = None)
          /\ (types_cache = None) = (written.coll = 0)
          /\ written.coll = written.ts)
    /\ [][/\ CacheChanges
             => \E t \in Tasks :
                    /\ LeavesTypesFetch(t)
                    /\ types_cache' = Some(ParseTypes(frame'[t].data))
                    /\ cache_timestamp' = Some(frame[t].now)
                    /\ written' = [coll |-> frame[t].fetch, ts |-> frame[t].fetch]
          /\ \A t \in Tasks :
                 (pc[t] # "done" /\ pc'[t] = "done" /\ ret'[t].kind = "return")
                 => \/ EntersGetAllTypes(t) /\ FreshEntry
                       /\ ret'[t].val = types_cache[1]
                    \/ LeavesTypesFetch(t)
                       /\ ret'[t].val = ParseTypes(frame'[t].data)]_vars

\* Two fetches overlapped: the second to start has returned its own
\* result, and the first, which answered later, holds the cache.
C4_Witness ==
    \E t \in Tasks :
        /\ pc[t] = "done"
        /\ ret[t].kind = "return"
        /\ frame[t].fetch = 2
        /\ log[t] = <<"GET /types">>
        /\ written = [coll |-> 1, ts |-> 1]
        /\ types_cache # Some(ret[t].val)

ClientOps == {"get_locations", "get_all_types", "get_types", "find_fruit_type_by_name"}

ValueError == [kind |-> "raise", err |-> "ValueError", val |-> <<>>]

\* C5: when the API key is unset or the empty string, every call of
\* get_locations, get_all_types, get_types and find_fruit_type_by_name
\* fails with the configuration error, no request is ever issued, and
\* the type cache stays as it was.
C5_NoKeyNoRequest ==
    env_key \in {None, Some(<<>>)}
    => /\ types_cache = None
       /\ cache_timestamp = None
       /\ fetches = 0
       /\ \A t \in Tasks :
              /\ log[t] = <<>>
              /\ pc[t] \notin {"gat_await", "gl_await"}
              /\ pc[t] = "done" => op[t] \in ClientOps /\ ret[t] = ValueError

\* The key is the empty string and a get_locations call has failed.
C5_Witness ==
    /\ env_key = Some(<<>>)
    /\ op[1] = "get_locations"
    /\ pc[1] = "done"
    /\ ret[1] = ValueError
    /\ log[1] = <<>>

\* The str x occurs in the str s.
Occurs(x, s) == \E i \in 1..(Len(s) + 1), j \in 0..Len(s) : SubSeq(s, i, j) = x

\* The set of common and scientific names of ft.
NamesOfType(ft) ==
    {ft.common_names[i] : i \in 1..Len(ft.common_names)}
    \cup {ft.scientific_names[i] : i \in 1..Len(ft.scientific_names)}

NameContains(ft, x) == \E n \in NamesOfType(ft) : Occurs(lower(x), lower(n))
NameEquals(ft, x) == \E n \in NamesOfType(ft) : lower(n) = lower(x)

\* A finished call of coroutine o by task 1 that returned.
Finished(o) == op[1] = o /\ pc[1] = "done" /\ ret[1].kind = "return"

\* C9: get_types(query) returns the whole cached collection, in order,
\* when query is absent or empty; otherwise exactly the cached types with
\* a name that contains the query (both lowercased), in cache order, each
\* once.
C9_GetTypes ==
    Finished("get_types")
    => LET query == frame[1].query
           cached == types_cache[1]
       IN  IF query = None \/ query = Some(<<>>)
           THEN ret[1].val = cached
           ELSE ret[1].val = SelectSeq(cached, LAMBDA ft : NameContains(ft, query[1]))

\* The query "A" against a type with three names that contain "a" and a
\* type with no names: the first is returned once.
C9_Witness ==
    /\ Finished("get_types")
    /\ frame[1].query = Some(<<"A">>)
    /\ frame[1].data = <<RawMulti, RawNoNames>>
    /\ Len(ret[1].val) = 1
    /\ ret[1].val[1].id = 3

Least(S) == CHOOSE i \in S : \A j \in S : i <= j

\* C10: find_fruit_type_by_name(name) returns the first cached type with
\* a name equal to `name` ignoring case, if there is one; else the first
\* with a name that contains it; and None exactly when no cached name
\* contains it.
C10_FindByName ==
    Finished("find_fruit_type_by_name")
    => LET name == frame[1].name
           cached == types_cache[1]
           exact == {i \in 1..Len(cached) : NameEquals(cached[i], name)}
           partial == {i \in 1..Len(cached) : NameContains(cached[i], name)}
       IN  /\ exact # {} => ret[1].val = Some(cached[Least(exact)])
           /\ (exact = {} /\ partial # {}) => ret[1].val = Some(cached[Least(partial)])
           /\ (ret[1].val = None) = (partial = {})

\* "a" resolves to the type named "A" although a type named "bA" comes
\* first in the cache.
C10_Witness ==
    /\ Finished("find_fruit_type_by_name")
    /\ frame[1].name = <<"a">>
    /\ frame[1].data = <<RawCrab, RawNoId, RawApple>>
    /\ ret[1].val # None
    /\ ret[1].val[1].id = 1

\* The records of a response that parse into a FruitLocation.
WellFormed(data) ==
    SelectSeq(data, LAMBDA item : item.id # None /\ item.lat # None /\ item.lng # None)

\* The distance in metres of a raw record from the centre of task 1's call.
DistanceOf(item) ==
    CalculateDistance(frame[1].lat, frame[1].lng, item.lat[1], item.lng[1])

\* C7: every location get_locations() returns is within radius_km of the
\* centre; a record the remote returned from further away is not in the
\* output.
C7_WithinRadius ==
    Finished("get_locations")
    => LET out == ret[1].val
           data == WellFormed(frame[1].loc_data)
       IN  /\ \A i \in 1..Len(out) :
                  CalculateDistance(frame[1].lat, frame[1].lng, out[i].lat, out[i].lng)
                      <= frame[1].radius_km * 1000
           /\ \A j \in 1..Len(data) :
                  DistanceOf(data[j]) > frame[1].radius_km * 1000
                  => \A i \in 1..Len(out) : out[i] # ParseLocation(data[j])[1]

\* Radius 112 km: of a record at 222 km, one at 111 km, a malformed one
\* and one at the centre, the second and the last are returned.
C7_Witness ==
    /\ Finished("get_locations")
    /\ frame[1].radius_km = 112
    /\ frame[1].loc_data = <<LocFar, LocNear, LocNoLat, LocCentre>>
    /\ Len(ret[1].val) = 2
    /\ ret[1].val[1].id = 2
    /\ ret[1].val[2].id = 1

\* C8: for radius_km >= 0 and limit >= 0 a successful get_locations()
\* returns the first `limit` of the well-formed records whose distance
\* does not exceed radius_km, in the remote order; a record at distance
\* exactly radius_km is kept, also for radius_km = 0.
C8_FirstLimitWithinRadius ==
    (Finished("get_locations") /\ frame[1].radius_km >= 0 /\ frame[1].limit >= 0)
    => LET kept == SelectSeq(WellFormed(frame[1].loc_data),
                             LAMBDA item : DistanceOf(item) <= frame[1].radius_km * 1000)
           n == IF frame[1].limit < Len(kept) THEN frame[1].limit ELSE Len(kept)
       IN  /\ Len(ret[1].val) = n
           /\ \A i \in 1..n : ret[1].val[i] = ParseLocation(kept[i])[1]

\* The tools that use the remote catalogue, and those of them that
\* geocode a place name first.
CatalogTools ==
    {"search_fruit_locations", "get_seasonal_fruits", "get_location_details",
     "get_id_for_fruit", "find_fruit_types"}
GeocodingTools ==
    {"search_fruit_locations", "get_seasonal_fruits", "get_location_details"}

Salvageable(data) == SelectSeq(data, LAMBDA item : item.id_kind = "int")

\* C11: a types response that arrived with a success status makes the
\* call return, whatever its records are, and the collection returned and
\* stored has one FruitType per record with an integer id, in the order of
\* the response; the other records are left out and displace nothing.
C11_SalvageInOrder ==
    [][\A t \in Tasks :
         (LeavesTypesFetch(t) /\ ret'[t].err \notin TransportErrors)
         => LET out == ret'[t].val
                kept == Salvageable(frame'[t].data)
            IN  /\ ret'[t].kind = "return"
                /\ types_cache' = Some(out)
                /\ Len(out) = Len(kept)
                /\ \A i \in 1..Len(kept) :
                       /\ out[i].id = kept[i].id
                       /\ out[i].common_names = CommonNamesOf(kept[i])
                       /\ out[i].scientific_names = ScientificNamesOf(kept[i])]_vars

\* A response with a record without id between two good records: the two
\* are stored, in the order of the response.
C11_Witness ==
    /\ frame[1].data = <<RawCrab, RawNoId, RawApple>>
    /\ types_cache # None
    /\ Len(types_cache[1]) = 2
    /\ types_cache[1][1].id = 2
    /\ types_cache[1][2].id = 1
    /\ ret[1].kind = "return"

\* The common_names of raw record `item`, one language after the other.
RECURSIVE ConcatLangs(_, _)
ConcatLangs(cn, k) ==
    IF k = 0 THEN <<>>
    ELSE ConcatLangs(cn, k - 1) \o (IF cn[k].is_list THEN cn[k].names ELSE <<>>)

\* The raw records with the id of cached type ft among a set of records.
RawOf(ft, raws) == {item \in raws : item.id_kind = "int" /\ item.id = ft.id}

\* The naming rule of a FruitType ft built from raw record item.
NamingRule(ft, item) ==
    /\ ft.common_names =
           (IF item.cn_kind = "dict" THEN ConcatLangs(item.cn, Len(item.cn)) ELSE <<>>)
    /\ ft.scientific_names = (IF item.sn_kind = "list" THEN item.sn ELSE <<>>)
    /\ ft.name = (IF Len(ft.common_names) > 0 THEN ft.common_names[1]
                  ELSE IF Len(ft.scientific_names) > 0 THEN ft.scientific_names[1]
                  ELSE <<"U", "n", "k", "n", "o", "w", "n">>)
    /\ ft.scientific_name =
           (IF Len(ft.scientific_names) > 0 THEN ft.scientific_names[1] ELSE <<>>)

\* C12: every FruitType in the cache, in every state, has as common names
\* the names of all language keys of its raw record one after the other,
\* as scientific names the raw list, as display name the first common
\* name, else the first scientific name, else "Unknown", and as primary
\* scientific name the first scientific name, else the empty string.
C12_NamingInvariant ==
    types_cache # None
    => \A i \in 1..Len(types_cache[1]) :
           LET ft == types_cache[1][i]
           IN  /\ RawOf(ft, RawTypes) # {}
               /\ \A item \in RawOf(ft, RawTypes) : NamingRule(ft, item)

\* The cache holds a type with two language keys, named by its first
\* common name, and a type without common names, named by its first
\* scientific name.
C12_Witness ==
    /\ types_cache # None
    /\ Len(types_cache[1]) = 2
    /\ types_cache[1][1].id = 3
    /\ types_cache[1][1].name = <<"b">>
    /\ Len(types_cache[1][1].common_names) = 3
    /\ types_cache[1][2].id = 5
    /\ types_cache[1][2].name = <<"a", "B">>

\* The number of requests to the remote locations collection task t's
\* current operation has issued.
LocationRequests(l) == Cardinality({i \in 1..Len(l) : l[i] = "GET /locations"})

\* Task t's get_locations runs from its entry to its raise or its await.
EntersGetLocations(t) == pc[t] = "gl" /\ pc'[t] # "gl"

\* Task t's awaited GET /locations ends.
LeavesLocationsFetch(t) == pc[t] = "gl_await" /\ pc'[t] # "gl_await"

\* C13: a get_locations() call made with an API key issues one request
\* to the locations collection; when the request ends in an error status
\* or a timeout the call fails with that error, nothing is returned, no
\* second request is issued, and the tool that made the call ends with
\* the error.
C13_OneRequestNoRetry ==
    /\ [](\A t \in Tasks : LocationRequests(log[t]) <= 1)
    /\ [][\A t \in Tasks :
            /\ (EntersGetLocations(t) /\ api_key # None)
               => /\ pc'[t] = "gl_await"
                  /\ log'[t] = Append(log[t], "GET /locations")
                  /\ LocationRequests(log'[t]) = 1
            /\ LeavesLocationsFetch(t)
               => /\ log'[t] = log[t]
                  /\ ret'[t].kind \in {"raise", "return"}
                  /\ ret'[t].kind = "raise"
                     => /\ ret'[t].err \in TransportErrors
                        /\ ret'[t].val = <<>>
                        /\ pc'[t] = "done"
                        /\ stack'[t] = <<>>
                        /\ running' = 0]_vars

\* get_location_details with a fruit name: geocode, types fetch, then a
\* locations fetch that timed out; the tool has ended with the timeout.
C13_Witness ==
    /\ op[1] = "get_location_details"
    /\ pc[1] = "done"
    /\ ret[1] = [kind |-> "raise", err |-> "TimeoutException", val |-> <<>>]
    /\ log[1] = <<"geocode", "GET /types", "GET /locations">>

\* The tools that geocode a place name, and the places they are at when
\* geocode_location has returned.
PlaceTools ==
    {"search_fruit_locations", "get_seasonal_fruits", "get_location_details",
     "get_directions_to_fruit"}
AfterGeocode == {"sfl_geocoded", "gsf_geocoded", "gld_geocoded", "gdf_geocoded"}

\* C14: in the four tools that geocode a place name, the geocoding never
\* raises into the tool, and when it gives no coordinates (the geocoder
\* raised, or found nothing) the tool returns the location-not-found
\* result with success = false, having sent no request to the remote
\* catalogue and left the type cache as it was.
C14_LocationNotFound ==
    [][\A t \in Tasks :
         /\ (pc[t] = "geo_wait" /\ pc'[t] # "geo_wait")
            => /\ ret'[t].kind = "return"
               /\ pc'[t] \in AfterGeocode
               /\ op[t] \in PlaceTools
         /\ (pc[t] \in AfterGeocode /\ pc'[t] # pc[t] /\ ret[t].val = None)
            => /\ pc'[t] = "done"
               /\ ret'[t].kind = "return"
               /\ ret'[t].val.success = FALSE
               /\ ret'[t].val.error = "location_not_found"
               /\ log'[t] = <<"geocode">>
               /\ fetches' = fetches
               /\ types_cache' = types_cache
               /\ cache_timestamp' = cache_timestamp]_vars

\* With an API key and a stored taxonomy, get_location_details has ended
\* with location-not-found after its geocoding alone.
C14_Witness ==
    /\ api_key # None
    /\ types_cache # None
    /\ op[1] = "get_location_details"
    /\ pc[1] = "done"
    /\ ret[1] = Returned(1, LocationNotFound)
    /\ log[1] = <<"geocode">>

\* The tools that take a fruit name, and the name task t's call was given
\* (None when the call has none, or an empty one).
NameTools == {"get_id_for_fruit", "search_fruit_locations", "get_location_details"}
SuppliedName(t) ==
    IF op[t] = "get_id_for_fruit" THEN Some(frame[t].name)
    ELSE IF frame[t].fruit_type = Some(<<>>) THEN None
    ELSE frame[t].fruit_type

\* No type of the stored taxonomy has a name that contains x.
MatchesNothing(x) ==
    /\ types_cache # None
    /\ \A i \in 1..Len(types_cache[1]) : ~NameContains(types_cache[1][i], x)

\* No types fetch of task t's operation came after its locations fetch:
\* the stored taxonomy is the one the name was resolved against.
ResolvedAgainstStored(t) ==
    \A i \in 1..Len(log[t]) :
        log[t][i] = "GET /types"
        => \A j \in 1..(i - 1) : log[t][j] # "GET /locations"

\* C15: a tool that takes a fruit name, called with a name that no type
\* of the cached taxonomy matches, ends (when the place was found and no
\* request failed) by returning a not-found result for the name, with
\* success = false, and not by raising.
C15_NameMissNotFound ==
    \A t \in Tasks :
        (/\ op[t] \in NameTools
         /\ pc[t] = "done"
         /\ SuppliedName(t) # None
         /\ MatchesNothing(SuppliedName(t)[1])
         /\ ResolvedAgainstStored(t)
         /\ ret[t].err \notin TransportErrors
         /\ ret[t] # Returned(t, LocationNotFound))
        => /\ ret[t].kind = "return"
           /\ ret[t].val.success = FALSE
           /\ ret[t].val.error = "no_match"

\* Tasks 1 and 2 have both returned from get_locations() calls with the
\* same centre, radius_km and limit against the same remote contents, the
\* first without a type_id and the second with one.
SameSearchWithAndWithoutType ==
    /\ \A t \in {1, 2} :
           op[t] = "get_locations" /\ pc[t] = "done" /\ ret[t].kind = "return"
    /\ frame[1].lat = frame[2].lat
    /\ frame[1].lng = frame[2].lng
    /\ frame[1].radius_km = frame[2].radius_km
    /\ frame[1].limit = frame[2].limit
    /\ frame[1].remote = frame[2].remote
    /\ frame[1].type_id = None
    /\ frame[2].type_id # None

\* a is b with some elements left out.
RECURSIVE IsSubsequence(_, _)
IsSubsequence(a, b) ==
    IF a = <<>> THEN TRUE
    ELSE IF b = <<>> THEN FALSE
    ELSE IF Head(a) = Head(b) THEN IsSubsequence(Tail(a), Tail(b))
    ELSE IsSubsequence(a, Tail(b))

\* C16 as stated: for the same centre, radius_km, limit and remote
\* contents, get_locations() with a type_id returns no more locations
\* than get_locations() without one.
C16_FilterNeverIncreases ==
    SameSearchWithAndWithoutType => Len(ret[2].val) <= Len(ret[1].val)

\* C16, amended: for the same centre, radius_km and limit, when the
\* remote's answer to the request with the type_id is its answer to the
\* request without one with some records left out, get_locations() with
\* the type_id returns no more locations than without it.
C16_FilterOfSameAnswer ==
    (SameSearchWithAndWithoutType
     /\ IsSubsequence(frame[2].loc_data, frame[1].loc_data))
    => Len(ret[2].val) <= Len(ret[1].val)

\* Two records in range, one of them of type 2: two locations without
\* the filter, one with it.
C16_Witness ==
    /\ SameSearchWithAndWithoutType
    /\ frame[1].remote = <<LocCentre, LocNear>>
    /\ frame[1].limit = 2
    /\ frame[2].type_id = Some(2)
    /\ IsSubsequence(frame[2].loc_data, frame[1].loc_data)
    /\ Len(ret[1].val) = 2
    /\ Len(ret[2].val) = 1

\* The Location data-model invariant.
ValidLocation(loc) ==
    /\ -90 <= loc.lat /\ loc.lat <= 90
    /\ -180 <= loc.lng /\ loc.lng <= 180
    /\ (loc.season_start = None) = (loc.season_stop = None)
    /\ loc.season_start # None => loc.season_start[1] \in 1..12
    /\ loc.season_stop # None => loc.season_stop[1] \in 1..12

\* C17: every location get_locations() returns has a latitude within
\* [-90, 90], a longitude within [-180, 180], season_start and
\* season_stop both present or both absent, and each present month within
\* 1..12: a remote record that is otherwise is not returned.
C17_ValidLocations ==
    Finished("get_locations")
    => \A i \in 1..Len(ret[1].val) : ValidLocation(ret[1].val[i])

\* The places where a task waits for a network round-trip to complete.
RoundTrips == {"geo_wait", "gat_await", "gl_await"}

\* C18: while a task waits on a round-trip (geocode, types fetch,
\* locations fetch), the event loop is free for the other task: a task
\* that is not started can start, and one whose own fetch has been
\* answered can go on.
C18_RoundTripsDoNotBlock ==
    \A t \in {1, 2} :
        pc[t] \in RoundTrips
        => /\ running # t
           /\ \A u \in {1, 2} \ {t} :
                  /\ pc[u] \in {"idle", "done"}
                     => ENABLED Call(u, "get_all_types", "gat", <<>>, NoFrame)
                  /\ pc[u] = "gl_await"
                     => ENABLED GL_Response(u, <<>>)

\* Task t's get_all_types returns at its cache test, without fetching.
ServedFromCache(t) ==
    EntersGetAllTypes(t) /\ pc'[t] # "gat_await" /\ ret'[t].kind = "return"

\* C19: under any interleaving of get_all_types() calls, the timestamp
\* stored with a collection is never later than the moment the collection
\* was received (the clock at the step that stores it), and a call that
\* returns the stored collection without fetching does so less than 24
\* hours after the stored timestamp, hence less than 24 hours after the
\* collection was received.
C19_StalenessBounded ==
    /\ [](cache_timestamp # None => cache_timestamp[1] <= clock)
    /\ [][\A t \in Tasks :
            /\ (LeavesTypesFetch(t) /\ ret'[t].kind = "return")
               => /\ types_cache' = Some(ret'[t].val)
                  /\ cache_timestamp' # None
                  /\ cache_timestamp'[1] <= clock
                  /\ clock' = clock
            /\ ServedFromCache(t)
               => /\ ret'[t].val = types_cache[1]
                  /\ clock - cache_timestamp[1] < 24
                  /\ clock - cache_timestamp[1] >= 0]_vars

\* A fetch begun at 0 was answered at 12, after a fetch begun at 12: the
\* entry carries timestamp 0, and a call at 12 was served from it.
C19_Witness ==
    \E t \in Tasks :
        /\ pc[t] = "done"
        /\ ret[t].kind = "return"
        /\ log[t] = <<>>
        /\ types_cache = Some(ret[t].val)
        /\ fetches = 2
        /\ written = [coll |-> 1, ts |-> 1]
        /\ cache_timestamp = Some(0)
        /\ clock = 12

\* C20: in search_fruit_locations and get_location_details called with a
\* fruit name, the category ID given to get_locations is the ID of the
\* type find_fruit_type_by_name resolves the name to in the cached
\* taxonomy: the first type with a name equal to it ignoring case, else
\* the first with a name that contains it, else none.
C20_ResolvesExactFirst ==
    (/\ op[1] \in {"search_fruit_locations", "get_location_details"}
     /\ pc[1] \in {"gl", "gl_await"}
     /\ frame[1].fruit_type \notin {None, Some(<<>>)})
    => LET name == frame[1].fruit_type[1]
           cached == types_cache[1]
           exact == {i \in 1..Len(cached) : NameEquals(cached[i], name)}
           partial == {i \in 1..Len(cached) : NameContains(cached[i], name)}
       IN  frame[1].type_id =
               (IF exact # {} THEN Some(cached[Least(exact)].id)
                ELSE IF partial # {} THEN Some(cached[Least(partial)].id)
                ELSE None)

\* Task 1's get_id_for_fruit, after a miss of find_fruit_type_by_name,
\* gets the stored taxonomy from get_all_types without a fetch: the
\* taxonomy is the one the name was looked up in.
SecondLookupServedFromCache ==
    /\ op[1] = "get_id_for_fruit"
    /\ pc[1] = "gat"
    /\ stack[1] = <<"gif_suggest">>
    /\ pc'[1] = "gif_suggest"

\* C21: in get_id_for_fruit, when the taxonomy is not replaced between
\* the lookup of find_fruit_type_by_name and the get_all_types() call
\* that follows it, no name of the taxonomy contains the searched name
\* and the not-found result has no suggestions; a not-found result with
\* suggestions comes only after a types fetch made within the call.
C21_NoSuggestionsWithoutRefresh ==
    /\ [][SecondLookupServedFromCache
            => /\ types_cache' = types_cache
               /\ log'[1] = log[1]
               /\ ret'[1].val = types_cache[1]
               /\ \A i \in 1..Len(types_cache[1]) :
                      ~NameContains(types_cache[1][i], frame[1].name)]_vars
    /\ [][(op[1] = "get_id_for_fruit" /\ pc[1] = "gif_suggest" /\ pc'[1] = "done")
            => /\ ret'[1].val.success = FALSE
               /\ (ret'[1].val.items = <<>>)
                  = (\A i \in 1..Len(ret[1].val) :
                         ~NameContains(ret[1].val[i], frame[1].name))]_vars
    /\ [](Finished("get_id_for_fruit") /\ ~ret[1].val.success
              /\ ret[1].val.items # <<>>
          => log[1] # <<>> /\ log[1][Len(log[1])] = "GET /types")

\* Both lookups of a get_id_for_fruit call were served from the cache,
\* and the call has returned not-found without suggestions.
C21_Witness ==
    /\ Finished("get_id_for_fruit")
    /\ frame[1].name = <<"a", "a">>
    /\ log[1] = <<>>
    /\ types_cache # None
    /\ Len(types_cache[1]) = 2
    /\ ret[1].val.success = FALSE
    /\ ret[1].val.items = <<>>

====
